---- MODULE Spec2Model ----
(***************************************************************************)
(* RentRoll AI Optimizer: the pricing engine (backend/app/pricing.py) and  *)
(* the batch executor (backend/app/main.py, batch_optimize).               *)
(*                                                                         *)
(* Units of measure.  Money is an integer number of cents; a market median *)
(* is an integer number of half cents (the median of an even number of     *)
(* cent prices is a multiple of half a cent).  Python's round() is         *)
(* round-half-to-even; it is computed here on exact rationals, so the      *)
(* binary representation error of 1.05 and 0.95 is not modelled.          *)
(* An Optional value is the empty tuple (None) or a one-element tuple.     *)
(***************************************************************************)
EXTENDS Integers, Sequences, FiniteSets, TLC

VARIABLES
    \* ---- one direct call of the pricing engine -------------------------
    unit_data,      \* the unit dict handed to the optimizer
    comps_data,     \* the comparables DataFrame, one record per row
    call,           \* the arguments of the call made, or NoCall
    filtered_out,   \* what _filter_comparables returned
    result,         \* what optimize_unit returned (or raised)
    history,        \* the optimize calls of the process so far, in order
    \* ---- one run of the batch endpoint ---------------------------------
    settings,       \* app.config.settings (the fields the batch reads)
    request,        \* the BatchOptimizeRequest
    bpc,            \* where batch_optimize stands
    lookup_i,       \* index of the next requested id to look up
    units,          \* the units list built by batch_optimize
    task_pc,        \* per task: "pending", "running", "done"
    task_result,    \* per task: what gather collected for it
    semaphore,      \* the value of the asyncio.Semaphore
    response        \* the BatchOptimizeResponse, or the HTTP error

pricing_vars == <<unit_data, comps_data, call, filtered_out, result, history>>
batch_vars == <<settings, request, bpc, lookup_i, units, task_pc, task_result,
                semaphore, response>>
vars == <<unit_data, comps_data, call, filtered_out, result, history,
          settings, request, bpc, lookup_i, units, task_pc, task_result,
          semaphore, response>>

-----------------------------------------------------------------------------
\* Bounds of the model.

\* comp_id values are 1..MaxComps; a comparable set has at most one row per id.
MaxComps == 2
\* unit ids of the snapshot table are 1..MaxUnits; MaxUnits + 1 is an unknown id.
MaxUnits == 3
\* settings.max_concurrent_optimizations ranges over 1..MaxConcurrency.
MaxConcurrency == 2
\* a process serves at most MaxCalls optimize calls.
MaxCalls == 3
\* the comparable query returns at most MaxRows rows (the confidence steps are
\* at 3, 5 and 10 rows).
MaxRows == 12

-----------------------------------------------------------------------------
\* Optional values.

None == <<>>

Some(v) == <<v>>

Val(o) == o[1]

-----------------------------------------------------------------------------
\* Input domains.

REVENUE == "revenue"

LEASE_UP == "lease_up"

BALANCED == "balanced"

OptimizationStrategy == {REVENUE, LEASE_UP, BALANCED}

\* advertised_rent, in cents: $0, $100.00, $250.40 (small amounts keep the
\* products of the percentage arithmetic inside TLC's 32-bit integers)
RentValues == {0, 10000, 25040}

\* sqft of a unit; 0 stands for a missing or zero sqft (falsy in Python)
SqftValues == {0, 1000}

\* comp_sqft: inside and outside the +/-20% band of a 1000 sqft unit
CompSqftValues == {900, 2000}

\* comp_price, in cents: $0 and $220.50
CompPriceValues == {0, 22050}

\* weight of the request, in hundredths
WeightValues == {0, 50, 100}

CompIds == 1..MaxComps

Comparable == [comp_id : CompIds, comp_sqft : CompSqftValues,
               comp_price : CompPriceValues, is_available : BOOLEAN]

\* DataFrames of the comparable query: rows ordered by comp_rank, here by id.
RECURSIVE FramesUpTo(_)
FramesUpTo(n) ==
    IF n = 0 THEN {<<>>}
    ELSE LET prev == FramesUpTo(n - 1)
         IN  prev \cup {Append(f, c) : f \in prev,
                                       c \in {x \in Comparable : x.comp_id = n}}

ComparableFrames == FramesUpTo(MaxComps)

UnitSnapshots == [unit_id : {1}, advertised_rent : {Some(r) : r \in RentValues},
                  sqft : SqftValues]

-----------------------------------------------------------------------------
\* Arithmetic helpers.

Max(a, b) == IF a >= b THEN a ELSE b

Min(a, b) == IF a <= b THEN a ELSE b

Abs(a) == IF a >= 0 THEN a ELSE 0 - a

\* Python round(n / d) for d > 0: nearest integer, ties to the even one.
RoundDown(n, d) == n \div d

RoundHalfEven(n, d) ==
    LET q == n \div d
        r == n % d
    IN  IF 2 * r < d THEN q
        ELSE IF 2 * r > d THEN q + 1
        ELSE IF q % 2 = 0 THEN q ELSE q + 1

\* round(x, 2) of a money value given as n / d cents: the nearest cent.
Round2(n, d) == RoundHalfEven(n, d)

RECURSIVE Insert(_, _)
Insert(x, s) ==
    IF s = <<>> THEN <<x>>
    ELSE IF x <= Head(s) THEN <<x>> \o s
    ELSE <<Head(s)>> \o Insert(x, Tail(s))

RECURSIVE Sorted(_)
Sorted(s) == IF s = <<>> THEN <<>> ELSE Insert(Head(s), Sorted(Tail(s)))

RECURSIVE Sum(_)
Sum(s) == IF s = <<>> THEN 0 ELSE Head(s) + Sum(Tail(s))

Prices(frame) == [i \in 1..Len(frame) |-> frame[i].comp_price]

\* pandas Series.median() of a non-empty column, in half cents.
Median2(s) ==
    LET o == Sorted(s)
        n == Len(o)
    IN  IF n % 2 = 1 THEN 2 * o[(n + 1) \div 2]
        ELSE o[n \div 2] + o[n \div 2 + 1]

-----------------------------------------------------------------------------
\* PricingOptimizer helpers.

\* settings.max_price_adjustment (0.25), in percent; kept by the optimizer as
\* self.max_adjustment.
max_price_adjustment == 25

\* settings.default_elasticity (-0.003), in thousandths.
default_elasticity == -3

InBand(unit_sqft, c) ==
    /\ c.comp_sqft * 10 >= unit_sqft * 8
    /\ c.comp_sqft * 10 <= unit_sqft * 12

IsExcluded(c, excluded_comp_ids) == c.comp_id \in excluded_comp_ids

IsActive(c) == c.is_available = TRUE

\* The last line of _filter_comparables: fall back to the original frame.
FallbackDropped(filtered, comps) == filtered

Fallback(filtered, comps) == IF filtered # <<>> THEN filtered ELSE comps

\* The +/-20% sqft stage of _filter_comparables.
BandStageLowerOnly(unit_sqft, frame) ==
    IF unit_sqft # 0
    THEN SelectSeq(frame, LAMBDA c : c.comp_sqft * 10 >= unit_sqft * 8)
    ELSE frame

BandStage(unit_sqft, frame) ==
    IF unit_sqft # 0
    THEN SelectSeq(frame, LAMBDA c : InBand(unit_sqft, c))
    ELSE frame

\* excluded_comp_ids is a set of ids; the empty set stands for None and [].
_filter_comparables(unit, comps, excluded_comp_ids) ==
    IF comps = <<>> THEN comps
    ELSE
      LET afterExcl ==
              IF excluded_comp_ids # {}
              THEN SelectSeq(comps, LAMBDA c : ~IsExcluded(c, excluded_comp_ids))
              ELSE comps
          afterBand == BandStage(unit.sqft, afterExcl)
          active == SelectSeq(afterBand, IsActive)
          afterAvail == IF active # <<>> THEN active ELSE afterBand
      IN  Fallback(afterAvail, comps)

\* None, or Some(median comp_price in half cents).
MarketMedianNeedsTwo(frame) ==
    IF Len(frame) < 2 THEN None ELSE Some(Median2(Prices(frame)))

_market_median(frame) ==
    IF frame = <<>> THEN None ELSE Some(Median2(Prices(frame)))

\* Confidence in hundredths.
ConfidenceFromCountStrict(comp_count) ==
    IF comp_count > 10 THEN 95
    ELSE IF comp_count > 5 THEN 80
    ELSE IF comp_count > 3 THEN 60
    ELSE 30

_confidence_from_count(comp_count) ==
    IF comp_count >= 10 THEN 95
    ELSE IF comp_count >= 5 THEN 80
    ELSE IF comp_count >= 3 THEN 60
    ELSE 30

_expected_days_by_strategy(strategy) ==
    IF strategy = REVENUE THEN 38
    ELSE IF strategy = LEASE_UP THEN 23
    ELSE 30

-----------------------------------------------------------------------------
\* Strategy methods.  Each returns (price, confidence) or raises.

Raise(e) == [raised |-> TRUE, error |-> e]

Return(price, confidence) ==
    [raised |-> FALSE, price |-> price, confidence |-> confidence]

\* What every strategy returns when _market_median is None.
NoMarketLowConfidence(current_rent) == Return(current_rent, Some(30))

NoMarket(current_rent) == Return(current_rent, None)

\* The rent arithmetic below needs a number: None raises TypeError.
revenue_optimization(unit, comps, excluded_comp_ids) ==
    LET filtered == _filter_comparables(unit, comps, excluded_comp_ids)
        market == _market_median(filtered)
        current_rent == unit.advertised_rent
    IN  IF market = None THEN NoMarket(current_rent)
        ELSE IF current_rent = None THEN Raise("TypeError")
        ELSE
          \* max(current_rent, market * 1.05), in 1/4000 dollar, then round()
          LET suggested ==
                  RoundHalfEven(Max(40 * Val(current_rent), 21 * Val(market)), 4000)
          IN  Return(Some(100 * suggested),
                     Some(_confidence_from_count(Len(filtered))))

leaseup_optimization(unit, comps, excluded_comp_ids) ==
    LET filtered == _filter_comparables(unit, comps, excluded_comp_ids)
        market == _market_median(filtered)
        current_rent == unit.advertised_rent
    IN  IF market = None THEN NoMarket(current_rent)
        ELSE
          \* round(market * 0.95)
          LET suggested == RoundHalfEven(19 * Val(market), 4000)
          IN  \* the log line computes suggested - current_rent
              IF current_rent = None THEN Raise("TypeError")
              ELSE Return(Some(100 * suggested),
                          Some(_confidence_from_count(Len(filtered))))

\* weight is accepted and not read.
balanced_optimization(unit, comps, weight, excluded_comp_ids) ==
    LET filtered == _filter_comparables(unit, comps, excluded_comp_ids)
        market == _market_median(filtered)
        current_rent == unit.advertised_rent
    IN  IF market = None THEN NoMarket(current_rent)
        ELSE IF current_rent = None THEN Raise("TypeError")
        ELSE
          LET c == Val(current_rent)
              m2 == Val(market)
              \* market_ratio = current_rent / market if market > 0 else 1.0
              within == IF m2 > 0 THEN 9 * m2 <= 20 * c /\ 20 * c <= 11 * m2
                        ELSE TRUE
              suggested ==
                  IF within THEN RoundHalfEven(c, 100)
                  ELSE IF 2 * c < m2
                       \* current_rent + (market - current_rent) * 0.5
                       THEN RoundHalfEven(2 * c + m2, 400)
                       \* current_rent - (current_rent - market) * 0.3
                       ELSE RoundHalfEven(14 * c + 3 * m2, 2000)
          IN  Return(Some(100 * suggested),
                     Some(_confidence_from_count(Len(filtered))))

\* comp_data of a result built from the filtered frame.  avg_comp_price is
\* the exact quotient <<sum, count>>; median_comp_price is in half cents.
CompData(filtered) ==
    LET p == Prices(filtered)
        o == Sorted(p)
    IN  [total_comps |-> Len(filtered),
         avg_comp_price |-> <<Sum(p), Len(p)>>,
         median_comp_price |-> Median2(p),
         min_comp_price |-> o[1],
         max_comp_price |-> o[Len(o)]]

\* The frame the comparable summary is built from: optimize_unit filters the
\* input again, with the arguments the strategy used.
SummaryFrameRaw(unit, comps, excluded_comp_ids) == comps

SummaryFrame(unit, comps, excluded_comp_ids) ==
    _filter_comparables(unit, comps, excluded_comp_ids)

\* suggested_rent or current_rent
OrCurrent(suggested_rent, current_rent) ==
    IF suggested_rent = None \/ Val(suggested_rent) = 0
    THEN current_rent ELSE suggested_rent

Dispatch(unit, comps, strategy, weight, excluded_comp_ids) ==
    IF strategy = REVENUE
    THEN revenue_optimization(unit, comps, excluded_comp_ids)
    ELSE IF strategy = LEASE_UP
    THEN leaseup_optimization(unit, comps, excluded_comp_ids)
    ELSE balanced_optimization(unit, comps,
                               IF weight = None \/ Val(weight) = 0
                               THEN 50 ELSE Val(weight),
                               excluded_comp_ids)

\* The if/elif chain of optimize_unit recognizes exactly the three enum tags.
IsKnownStrategyAny(strategy) == TRUE

IsKnownStrategy(strategy) == strategy \in OptimizationStrategy

\* weight is None or Some(hundredths); the result's money fields are cents,
\* rent_change_pct is in hundredths of a percent.
optimize_unit(unit, comps, strategy, weight, excluded_comp_ids) ==
    IF ~IsKnownStrategy(strategy) THEN Raise("ValueError")
    ELSE
      LET current_rent == unit.advertised_rent
          s == Dispatch(unit, comps, strategy, weight, excluded_comp_ids)
      IN  IF s.raised THEN s
          ELSE
            LET suggested_rent == s.price
                no_comps == comps = <<>> \/ suggested_rent = None
                out == OrCurrent(suggested_rent, current_rent)
            IN  IF out = None \/ (~no_comps /\ current_rent = None)
                THEN Raise("TypeError")
                ELSE
                  LET rent_change ==
                          IF no_comps THEN 0
                          ELSE Val(suggested_rent) - Val(current_rent)
                      rent_change_pct ==
                          IF no_comps \/ Val(current_rent) = 0 THEN 0
                          ELSE RoundHalfEven(rent_change * 10000, Val(current_rent))
                      revenue_impact_annual == rent_change * 12
                      filtered == SummaryFrame(unit, comps, excluded_comp_ids)
                  IN  [raised |-> FALSE,
                       unit_id |-> unit.unit_id,
                       current_rent |-> Val(current_rent),
                       suggested_rent |-> Round2(Val(out), 1),
                       rent_change |-> Round2(rent_change, 1),
                       rent_change_pct |-> rent_change_pct,
                       confidence |-> s.confidence,
                       strategy_used |-> strategy,
                       demand_probability |-> None,
                       expected_days_to_lease |->
                           IF no_comps THEN None
                           ELSE Some(_expected_days_by_strategy(strategy)),
                       revenue_impact_annual |-> Round2(revenue_impact_annual, 1),
                       comp_data |->
                           IF no_comps THEN <<>> ELSE CompData(filtered)]

-----------------------------------------------------------------------------
\* Construction of an optimizer.  Elasticities are in thousandths.

\* DemandCurve.__init__: "elasticity or settings.default_elasticity", so None
\* and 0.0 both select the process-wide default.
DemandCurve(elasticity) ==
    [elasticity |-> IF elasticity # None /\ Val(elasticity) # 0
                    THEN Val(elasticity)
                    ELSE settings.default_elasticity]

PricingOptimizer(elasticity) ==
    [demand_curve |-> DemandCurve(elasticity),
     max_adjustment |-> max_price_adjustment]

create_optimizer(elasticity) == PricingOptimizer(elasticity)

\* app.config.settings once create_optimizer(elasticity) has returned: the
\* constructors read settings and assign only to fields of the new objects.
SettingsOverridden(elasticity) ==
    IF elasticity = None THEN settings
    ELSE [settings EXCEPT !.default_elasticity = Val(elasticity)]

SettingsAfterCreate(elasticity) == settings

\* optimizer.optimize_unit(...): the method of the optimizer `self`.  The body
\* reads none of self.demand_curve and self.max_adjustment.
OptimizeUnitReadingCurve(self, unit, comps, strategy, weight, excluded_comp_ids) ==
    LET r == optimize_unit(unit, comps, strategy, weight, excluded_comp_ids)
    IN  IF r.raised THEN r
        ELSE [r EXCEPT !.demand_probability = Some(self.demand_curve.elasticity)]

OptimizeUnitOf(self, unit, comps, strategy, weight, excluded_comp_ids) ==
    optimize_unit(unit, comps, strategy, weight, excluded_comp_ids)

-----------------------------------------------------------------------------
\* DemandCurve.probability.  A probability is an exact fraction
\* [num, den] with den > 0; prices are whole dollars.

RECURSIVE GCD(_, _)
GCD(a, b) == IF b = 0 THEN a ELSE GCD(b, a % b)

\* the fraction n / d in lowest terms, for d > 0
Frac(n, d) ==
    LET g == GCD(Abs(n), d)
    IN  [num |-> n \div g, den |-> d \div g]

\* a < b and a <= b on fractions with positive denominators
FracLess(a, b) == a.num * b.den < b.num * a.den

FracLeq(a, b) == a.num * b.den <= b.num * a.den

\* np.clip(x, lo, hi) = minimum(maximum(x, lo), hi)
Clip(x, lo, hi) ==
    LET raised_to_lo == IF FracLess(x, lo) THEN lo ELSE x
    IN  IF FracLess(hi, raised_to_lo) THEN hi ELSE raised_to_lo

\* upper_cap = 0.95 if price / base_price < 0.6 else 1.5, for base_price > 0
UpperCapFlat(price, base_price) == Frac(3, 2)

UpperCap(price, base_price) ==
    IF 10 * price < 6 * base_price THEN Frac(19, 20) ELSE Frac(3, 2)

\* 1 + elasticity * ((price - base) / base) * 100 with elasticity in
\* thousandths is (10 * base + elasticity * (price - base)) / (10 * base).
probability(self, price, base_price) ==
    IF base_price <= 0 THEN Frac(1, 2)
    ELSE Clip(Frac(10 * base_price + self.elasticity * (price - base_price),
                   10 * base_price),
              Frac(1, 20),
              UpperCap(price, base_price))

\* 30 / prob, in days; prob is never 0 (it is 0.5 or at least 0.05).
expected_days_to_lease(self, price, base_price) ==
    LET prob == probability(self, price, base_price)
    IN  Frac(30 * prob.den, prob.num)

-----------------------------------------------------------------------------
\* Direct calls of the pricing engine: the inputs are drawn in InitPricing and
\* by the call actions.

NoCall == [op |-> "none"]

BatchIdle ==
    /\ settings = [max_concurrent_optimizations |-> 1,
                   default_elasticity |-> default_elasticity]
    /\ request = None
    /\ bpc = "idle"
    /\ lookup_i = 0
    /\ units = <<>>
    /\ task_pc = <<>>
    /\ task_result = <<>>
    /\ semaphore = 0
    /\ response = None

PricingIdle ==
    /\ unit_data = None
    /\ comps_data = <<>>
    /\ call = NoCall
    /\ filtered_out = <<>>
    /\ result = None
    /\ history = <<>>

InitPricing ==
    /\ unit_data \in UnitSnapshots
    /\ comps_data \in ComparableFrames
    /\ call = NoCall
    /\ filtered_out = <<>>
    /\ result = None
    /\ history = <<>>
    /\ BatchIdle

\* The strategy tags a caller can pass: the enum and an unknown tag.
StrategyTags == OptimizationStrategy \cup {"invalid_strategy"}

\* weight is read (and then ignored) by the balanced strategy only.
WeightsFor(strategy) ==
    IF strategy = BALANCED
    THEN {None} \cup {Some(w) : w \in WeightValues}
    ELSE {Some(50)}

CallFilterComparables ==
    /\ call = NoCall
    /\ unit_data # None
    /\ \E excluded \in SUBSET CompIds :
          /\ call' = [op |-> "_filter_comparables", strategy |-> "",
                      weight |-> None, excluded_comp_ids |-> excluded]
          /\ filtered_out' = _filter_comparables(unit_data, comps_data, excluded)
    /\ UNCHANGED <<unit_data, comps_data, result, history>>
    /\ UNCHANGED batch_vars

CallOptimizeUnit ==
    /\ call = NoCall
    /\ unit_data # None
    /\ \E strategy \in StrategyTags, excluded \in SUBSET CompIds :
          \E weight \in WeightsFor(strategy) :
             /\ call' = [op |-> "optimize_unit", strategy |-> strategy,
                         weight |-> weight, excluded_comp_ids |-> excluded]
             /\ result' = optimize_unit(unit_data, comps_data, strategy, weight,
                                        excluded)
             /\ filtered_out' =
                    _filter_comparables(unit_data, comps_data, excluded)
    /\ UNCHANGED <<unit_data, comps_data, history>>
    /\ UNCHANGED batch_vars

\* The strategy methods called directly, as the unit tests do.
StrategyMethods ==
    {"revenue_optimization", "leaseup_optimization", "balanced_optimization"}

CallStrategy ==
    /\ call = NoCall
    /\ unit_data # None
    /\ \E method \in StrategyMethods, excluded \in SUBSET CompIds :
          \E weight \in IF method = "balanced_optimization"
                        THEN {Some(w) : w \in WeightValues} ELSE {Some(50)} :
             /\ call' = [op |-> method, strategy |-> "", weight |-> weight,
                         excluded_comp_ids |-> excluded]
             /\ result' =
                    IF method = "revenue_optimization"
                    THEN revenue_optimization(unit_data, comps_data, excluded)
                    ELSE IF method = "leaseup_optimization"
                    THEN leaseup_optimization(unit_data, comps_data, excluded)
                    ELSE balanced_optimization(unit_data, comps_data, Val(weight),
                                               excluded)
             /\ filtered_out' =
                    _filter_comparables(unit_data, comps_data, excluded)
    /\ UNCHANGED <<unit_data, comps_data, history>>
    /\ UNCHANGED batch_vars

NextPricing == CallFilterComparables \/ CallOptimizeUnit \/ CallStrategy

SpecPricing == InitPricing /\ [][NextPricing]_vars

-----------------------------------------------------------------------------
\* The pricing engine on long comparable frames: n rows, the first k of them
\* inside the +/-20% sqft band of the unit.

LongFrame(n, k) ==
    [i \in 1..n |->
        [comp_id |-> i, comp_sqft |-> IF i <= k THEN 900 ELSE 2000,
         comp_price |-> 22050, is_available |-> TRUE]]

LongFrames == {LongFrame(n, k) : n \in 0..MaxRows, k \in 0..MaxRows}

InitConfidence ==
    /\ unit_data = [unit_id |-> 1, advertised_rent |-> Some(10000), sqft |-> 1000]
    /\ comps_data \in LongFrames
    /\ call = NoCall
    /\ filtered_out = <<>>
    /\ result = None
    /\ history = <<>>
    /\ BatchIdle

SpecConfidence == InitConfidence /\ [][NextPricing]_vars

\* A strategy, called directly or through optimize_unit, returned a confidence.
HasConfidence ==
    /\ call.op \in StrategyMethods \cup {"optimize_unit"}
    /\ ~result.raised
    /\ result.confidence # None

\* C24: a non-null confidence is 0.95 for >= 10 filtered comparables, 0.80 for
\* 5-9, 0.60 for 3-4 and 0.30 for fewer than 3, whichever strategy ran; so it
\* lies in [0, 1] and is not below the confidence of any smaller count.
C24_ConfidenceFromCount ==
    HasConfidence =>
        LET n == Len(filtered_out)
            c == Val(result.confidence)
            table(m) == IF m >= 10 THEN 95 ELSE IF m >= 5 THEN 80
                        ELSE IF m >= 3 THEN 60 ELSE 30
        IN  /\ c = table(n)
            /\ 0 <= c /\ c <= 100
            /\ \A m \in 0..n : table(m) <= c

C24_Witness ==
    /\ HasConfidence
    /\ call.op = "optimize_unit"
    /\ call.strategy = BALANCED
    /\ Len(comps_data) = 12
    /\ Len(filtered_out) = 10
    /\ result.confidence = Some(95)

-----------------------------------------------------------------------------
\* A process serving several optimize calls one after the other, each with its
\* own optimizer: create_optimizer(custom_elasticity), then optimize_unit.

SessionUnits ==
    {u \in UnitSnapshots :
        /\ u.unit_id = 1
        /\ u.sqft = 1000
        /\ u.advertised_rent \in {Some(10000), Some(25040)}}

SessionFrames ==
    {<<[comp_id |-> 1, comp_sqft |-> 900, comp_price |-> 22050,
        is_available |-> TRUE]>>}

\* custom_elasticity of a request: absent, or -0.005.
ElasticityOverrides == {None, Some(-5)}

InitSession ==
    /\ PricingIdle
    /\ BatchIdle

OptimizeWithNewOptimizer ==
    /\ Len(history) < MaxCalls
    /\ \E unit \in SessionUnits, comps \in SessionFrames,
          strategy \in OptimizationStrategy,
          custom_elasticity \in ElasticityOverrides :
          LET optimizer == create_optimizer(custom_elasticity)
          IN  /\ unit_data' = unit
              /\ comps_data' = comps
              /\ call' = [op |-> "optimize_unit", strategy |-> strategy,
                          weight |-> Some(50), excluded_comp_ids |-> {}]
              /\ filtered_out' = _filter_comparables(unit, comps, {})
              /\ result' = OptimizeUnitOf(optimizer, unit, comps, strategy,
                                          Some(50), {})
              /\ settings' = SettingsAfterCreate(custom_elasticity)
              /\ history' = Append(history,
                                   [unit_data |-> unit,
                                    comps_data |-> comps,
                                    strategy |-> strategy,
                                    weight |-> Some(50),
                                    custom_elasticity |-> custom_elasticity,
                                    optimizer |-> optimizer,
                                    result |-> result'])
    /\ UNCHANGED <<request, bpc, lookup_i, units, task_pc, task_result,
                   semaphore, response>>

NextSession == OptimizeWithNewOptimizer

SpecSession == InitSession /\ [][NextSession]_vars

-----------------------------------------------------------------------------
\* Direct calls of DemandCurve.probability on a freshly built curve.

\* elasticity argument of the constructor: absent, 0.0, -0.003, -0.005, -0.1
\* and a (wrong-signed) +0.003
CurveElasticities == {None, Some(0), Some(-3), Some(-5), Some(-100), Some(3)}

\* price and base_price, in dollars
PriceValues == {0, 500, 1199, 1200, 1800, 2000, 2200, 5000}

BasePriceValues == {-2000, 0, 1000, 2000}

InitDemand ==
    /\ PricingIdle
    /\ BatchIdle

\* The calls that leave a curve behind: the constructor and the two methods.
CurveOps == {"DemandCurve", "probability", "expected_days_to_lease"}

\* curve = DemandCurve(elasticity); call.elasticity keeps the argument and
\* call.self the object.
ConstructCurve ==
    /\ call = NoCall
    /\ \E elasticity \in CurveElasticities :
          call' = [op |-> "DemandCurve", elasticity |-> elasticity,
                   self |-> DemandCurve(elasticity),
                   price |-> 0, base_price |-> 0]
    /\ UNCHANGED <<unit_data, comps_data, filtered_out, result, history>>
    /\ UNCHANGED batch_vars

\* curve.probability(price, base_price); the method assigns to no field.
CallProbability ==
    /\ call.op \in CurveOps
    /\ \E price \in PriceValues, base_price \in BasePriceValues :
          /\ call' = [op |-> "probability", elasticity |-> call.elasticity,
                      self |-> call.self,
                      price |-> price, base_price |-> base_price]
          /\ result' = probability(call.self, price, base_price)
    /\ UNCHANGED <<unit_data, comps_data, filtered_out, history>>
    /\ UNCHANGED batch_vars

\* curve.expected_days_to_lease(price, base_price)
CallExpectedDays ==
    /\ call.op \in CurveOps
    /\ \E price \in PriceValues, base_price \in BasePriceValues :
          /\ call' = [op |-> "expected_days_to_lease",
                      elasticity |-> call.elasticity, self |-> call.self,
                      price |-> price, base_price |-> base_price]
          /\ result' = expected_days_to_lease(call.self, price, base_price)
    /\ UNCHANGED <<unit_data, comps_data, filtered_out, history>>
    /\ UNCHANGED batch_vars

NextDemand == ConstructCurve \/ CallProbability \/ CallExpectedDays

SpecDemand == InitDemand /\ [][NextDemand]_vars

C22_LowerPriceNotSlower ==
    (/\ call.op = "expected_days_to_lease"
     /\ call.self.elasticity < 0
     /\ call.base_price > 0) =>
        \A p2 \in PriceValues :
            call.price < p2 =>
                FracLeq(result,
                        expected_days_to_lease(call.self, p2, call.base_price))

\* C23 as stated: a curve built without an argument holds the configured
\* default, a curve built with e holds exactly e, and the methods leave the
\* elasticity as it is.
C23_ElasticityFixedAtConstruction ==
    call.op \in CurveOps =>
        call.self.elasticity =
            (IF call.elasticity = None THEN default_elasticity
             ELSE Val(call.elasticity))

\* The arguments of two recorded calls are identical.
SameInputs(a, b) ==
    /\ a.unit_data = b.unit_data
    /\ a.comps_data = b.comps_data
    /\ a.strategy = b.strategy
    /\ a.weight = b.weight
    /\ a.custom_elasticity = b.custom_elasticity

SameArguments(a, b) ==
    /\ a.unit_data = b.unit_data
    /\ a.comps_data = b.comps_data
    /\ a.strategy = b.strategy
    /\ a.weight = b.weight

\* C29: the elasticity has no influence on a result: two calls of a process
\* that differ at most in the elasticity override return identical results,
\* and the result of every call is the one an optimizer created with any other
\* elasticity (none, 0.0, -0.003, -0.005, -0.1, +0.003) returns for its inputs.
C29_ElasticityHasNoInfluence ==
    \A i \in 1..Len(history) :
        /\ \A j \in 1..Len(history) :
              SameArguments(history[i], history[j]) =>
                  history[i].result = history[j].result
        /\ \A e \in CurveElasticities :
              OptimizeUnitOf(create_optimizer(e), history[i].unit_data,
                             history[i].comps_data, history[i].strategy,
                             history[i].weight, {}) = history[i].result

C29_Witness ==
    /\ Len(history) = 2
    /\ SameArguments(history[1], history[2])
    /\ history[1].custom_elasticity = None
    /\ history[2].custom_elasticity = Some(-5)
    /\ history[1].optimizer.demand_curve.elasticity = -3
    /\ history[2].optimizer.demand_curve.elasticity = -5
    /\ history[1].comps_data # <<>>
    /\ history[1].strategy = BALANCED
    /\ ~history[2].result.raised
    /\ history[2].result.suggested_rent # history[2].result.current_rent

Filtered == call.op = "_filter_comparables"

Optimized == call.op = "optimize_unit" /\ ~result.raised

-----------------------------------------------------------------------------
\* Properties of the pricing engine, checked under SpecPricing.

\* C5: with an empty comparable set optimize_unit returns, for each of the
\* three strategies, suggested_rent = current_rent, rent_change = 0 and a
\* null confidence.
C5_EmptyComparables ==
    (Optimized /\ comps_data = <<>>) =>
        /\ result.suggested_rent = Val(unit_data.advertised_rent)
        /\ result.suggested_rent = result.current_rent
        /\ result.rent_change = 0
        /\ result.confidence = None

C5_Witness ==
    /\ Optimized
    /\ comps_data = <<>>
    /\ call.strategy = LEASE_UP
    /\ result.suggested_rent = 25040

\* C6: every result satisfies rent_change = suggested_rent - current_rent and
\* revenue_impact_annual = rent_change * 12.
C6_ResultInvariant ==
    Optimized =>
        /\ result.rent_change = result.suggested_rent - result.current_rent
        /\ result.revenue_impact_annual = result.rent_change * 12

\* C7 as stated: confidence and demand_probability are both null when the
\* comparable set used for pricing is empty and both non-null otherwise.
C7_BothNullIffEmpty ==
    Optimized =>
        /\ filtered_out = <<>> =>
              (result.confidence = None /\ result.demand_probability = None)
        /\ filtered_out # <<>> =>
              (result.confidence # None /\ result.demand_probability # None)

\* C7 amended: confidence is null exactly when the comparable set used for
\* pricing is empty; demand_probability is null in every result.
C7_ConfidenceNullIffEmpty ==
    Optimized =>
        /\ (result.confidence = None) <=> (filtered_out = <<>>)
        /\ result.demand_probability = None

C7_Witness ==
    /\ Optimized
    /\ Len(filtered_out) = 1
    /\ result.confidence = Some(30)
    /\ result.demand_probability = None

\* C8: no comparable whose comp_id is in excluded_comp_ids is part of the
\* filtered set (the set comp_data and the market median are computed from).
C8_ExclusionRespected ==
    call.op # "none" =>
        \A i \in 1..Len(filtered_out) :
            filtered_out[i].comp_id \notin call.excluded_comp_ids

AllInBand == \A i \in 1..Len(filtered_out) : InBand(unit_data.sqft, filtered_out[i])

\* C9 as stated: for every unit, every surviving comparable lies in the
\* +/-20% sqft band, or the filtered set equals the input set.
C9_FilterBand ==
    (Filtered /\ call.excluded_comp_ids = {}) =>
        (AllInBand \/ filtered_out = comps_data)

\* C9 amended: the same, for every unit whose sqft is present and non-zero.
C9_FilterBandKnownSqft ==
    (Filtered /\ unit_data.sqft # 0) => (AllInBand \/ filtered_out = comps_data)

C9_Witness ==
    /\ Filtered
    /\ unit_data.sqft # 0
    /\ call.excluded_comp_ids = {}
    /\ filtered_out # comps_data
    /\ \E i \in 1..Len(comps_data) : ~InBand(unit_data.sqft, comps_data[i])
    /\ AllInBand

\* C10: the filter returns an empty set only if its input was empty.
C10_EmptyOnlyIfInputEmpty ==
    (Filtered /\ comps_data # <<>>) => filtered_out # <<>>

C10_Witness ==
    /\ Filtered
    /\ comps_data # <<>>
    /\ \A i \in 1..Len(comps_data) :
          comps_data[i].comp_id \in call.excluded_comp_ids
    /\ filtered_out = comps_data

\* C19 as stated: the stages run in the order exclusion, sqft band,
\* availability preference; a stage that would empty the set is undone (the set
\* it was given is kept) and the next stage continues from there.
C19_StagedFallback ==
    Filtered =>
        LET keep(before, after) == IF after # <<>> THEN after ELSE before
            afterExcl ==
                keep(comps_data,
                     SelectSeq(comps_data,
                               LAMBDA c : ~IsExcluded(c, call.excluded_comp_ids)))
            afterBand ==
                keep(afterExcl,
                     IF unit_data.sqft # 0
                     THEN SelectSeq(afterExcl,
                                    LAMBDA c : InBand(unit_data.sqft, c))
                     ELSE afterExcl)
            afterAvail == keep(afterBand, SelectSeq(afterBand, IsActive))
        IN  filtered_out = afterAvail

\* C20 as stated: a filtered result that holds an available comparable holds
\* only available comparables.
C20_AvailabilityPreference ==
    Filtered =>
        ((\E i \in 1..Len(filtered_out) : IsActive(filtered_out[i]))
            => \A i \in 1..Len(filtered_out) : IsActive(filtered_out[i]))

\* C11: optimize_unit called with a strategy tag outside the enum raises
\* ValueError, for every unit and comparable set (an empty one included), and
\* returns no result.
C11_InvalidStrategyRaises ==
    (call.op = "optimize_unit" /\ call.strategy \notin OptimizationStrategy) =>
        (result.raised /\ result.error = "ValueError")

C11_Witness ==
    /\ call.op = "optimize_unit"
    /\ call.strategy = "invalid_strategy"
    /\ comps_data = <<>>
    /\ result.raised

\* A strategy method returned a price computed from a market median.
Priced(method) ==
    call.op = method /\ ~result.raised /\ filtered_out # <<>>

\* The market median of the call, in half cents, and the unit's rent, in cents.
Base2 == Median2(Prices(filtered_out))

Current == Val(unit_data.advertised_rent)

RevenuePrice ==
    Val(revenue_optimization(unit_data, comps_data, call.excluded_comp_ids).price)

LeaseUpPrice ==
    Val(leaseup_optimization(unit_data, comps_data, call.excluded_comp_ids).price)

\* C13 as stated: the Balanced price is within a dollar of
\* revenuePrice * weight + leaseUpPrice * (1 - weight); weight is in hundredths,
\* both sides are scaled by 100.
C13_BalancedBlend ==
    Priced("balanced_optimization") =>
        Abs(100 * Val(result.price)
              - (RevenuePrice * Val(call.weight)
                   + LeaseUpPrice * (100 - Val(call.weight)))) <= 10000

\* C14 as stated: revenue_optimization never returns a rent below the unit's
\* current advertised rent, integral or fractional.
C14_RevenueNeverDecreases ==
    Priced("revenue_optimization") => Val(result.price) >= Current

\* C21: for every result with a non-empty comparable set, comp_data is built
\* from the filtered set that drove the price: total_comps is the size of the
\* filtered set the confidence was derived from, median_comp_price is the market
\* median the strategy priced against (a non-zero Quick Lease price is that
\* median * 0.95 rounded to the dollar), and min <= median <= max.
C21_SummaryFromFilteredSet ==
    (Optimized /\ comps_data # <<>>) =>
        /\ result.comp_data # <<>>
        /\ result.comp_data.total_comps = Len(filtered_out)
        /\ result.confidence =
              Some(_confidence_from_count(result.comp_data.total_comps))
        /\ Some(result.comp_data.median_comp_price) = _market_median(filtered_out)
        /\ 2 * result.comp_data.min_comp_price <= result.comp_data.median_comp_price
        /\ result.comp_data.median_comp_price <= 2 * result.comp_data.max_comp_price
        /\ \A i \in 1..Len(filtered_out) :
              /\ result.comp_data.min_comp_price <= filtered_out[i].comp_price
              /\ filtered_out[i].comp_price <= result.comp_data.max_comp_price
        /\ call.strategy = LEASE_UP =>
              LET quick == 100 * RoundHalfEven(
                               19 * result.comp_data.median_comp_price, 4000)
              IN  quick # 0 => result.suggested_rent = quick

C21_Witness ==
    /\ Optimized
    /\ call.strategy = LEASE_UP
    /\ Len(comps_data) = 2
    /\ Len(filtered_out) = 1
    /\ result.comp_data.total_comps = 1
    /\ result.comp_data.median_comp_price = 44100
    /\ result.comp_data.median_comp_price # Median2(Prices(comps_data))
    /\ result.suggested_rent = 20900

-----------------------------------------------------------------------------
\* The storage collaborator, as batch_optimize sees it.

UnitIds == 1..MaxUnits

\* An id the snapshot table does not hold.
UnknownId == MaxUnits + 1

\* The snapshot row of unit u.  Even ids carry a NULL advertised_rent (bad
\* data), on which every strategy raises.
DbUnit(u) ==
    [unit_id |-> u,
     advertised_rent |-> IF u % 2 = 0 THEN None ELSE Some(10000),
     sqft |-> 1000]

DbComp(k) ==
    [comp_id |-> k, comp_sqft |-> 900, comp_price |-> 22050, is_available |-> TRUE]

\* The competitor pairs of unit u: unit 1 has none, unit 2 one, and so on.
DbComps(u) == [k \in 1..((u - 1) % (MaxComps + 1)) |-> DbComp(k)]

\* get_unit_by_id when the query succeeds: the row, or None.
GetUnitByIdPlaceholder(unit_id) ==
    IF unit_id \in UnitIds THEN Some(DbUnit(unit_id))
    ELSE Some([unit_id |-> unit_id, advertised_rent |-> None, sqft |-> 0])

get_unit_by_id(unit_id) ==
    IF unit_id \in UnitIds THEN Some(DbUnit(unit_id)) ELSE None

Take(s, n) == SubSeq(s, 1, IF n < Len(s) THEN n ELSE Len(s))

\* get_vacant_units when the query succeeds: LIMIT is added only for a truthy
\* limit.
get_vacant_units(limit) ==
    LET all == [u \in UnitIds |-> DbUnit(u)]
    IN  IF limit # 0 THEN Take(all, limit) ELSE all

\* get_unit_comparables: the rows, or an empty DataFrame on a query error.
GetUnitComparablesStale(unit_id, query_ok) == DbComps(unit_id)

get_unit_comparables(unit_id, query_ok) ==
    IF query_ok THEN DbComps(unit_id) ELSE <<>>

-----------------------------------------------------------------------------
\* _optimize_single_unit and the aggregation of batch_optimize.

\* Some(OptimizationResult), or None when anything raised.  The batch passes
\* no excluded_comp_ids.
_optimize_single_unit(unit, comps, strategy, weight) ==
    LET r == optimize_unit(unit, comps, strategy, weight, {})
    IN  IF r.raised THEN None ELSE Some(r)

\* isinstance(result, OptimizationResult)
IsOptimizationResult(r) == r # None /\ ~Val(r).raised

RECURSIVE SuccessfulResults(_)
SuccessfulResults(rs) ==
    IF rs = <<>> THEN <<>>
    ELSE IF IsOptimizationResult(Head(rs))
         THEN <<Val(Head(rs))>> \o SuccessfulResults(Tail(rs))
         ELSE SuccessfulResults(Tail(rs))

\* The else branch of the result loop: failed_count += 1
CountsAsFailedExceptionsOnly(r) == r # None /\ Val(r).raised

CountsAsFailed(r) == ~IsOptimizationResult(r)

RECURSIVE FailedCount(_)
FailedCount(rs) ==
    IF rs = <<>> THEN 0
    ELSE (IF CountsAsFailed(Head(rs)) THEN 1 ELSE 0) + FailedCount(Tail(rs))

ProcessedFromResults(us, rs) == Len(SuccessfulResults(rs))

Processed(us, rs) == Len(us)

BatchOptimizeResponse(us, rs) ==
    [status |-> 200,
     total_units_processed |-> Processed(us, rs),
     successful_optimizations |-> Len(SuccessfulResults(rs)),
     failed_optimizations |-> FailedCount(rs),
     results |-> SuccessfulResults(rs)]

EmptyResponse ==
    [status |-> 200, total_units_processed |-> 0, successful_optimizations |-> 0,
     failed_optimizations |-> 0, results |-> <<>>]

HTTPException(detail) == [status |-> 500, detail |-> detail]

\* request.unit_ids[:request.max_units]
RequestedIds == Take(request.unit_ids, request.max_units)

-----------------------------------------------------------------------------
\* One run of batch_optimize.

\* Requested id lists: increasing lists over the known ids and one unknown id;
\* the empty list stands for unit_ids = None as well.
RECURSIVE IdListsUpTo(_)
IdListsUpTo(n) ==
    IF n = 0 THEN {<<>>}
    ELSE LET prev == IdListsUpTo(n - 1)
         IN  prev \cup {Append(l, n) : l \in prev}

BatchOptimizeRequests ==
    [unit_ids : IdListsUpTo(UnknownId),
     strategy : OptimizationStrategy,
     weight : {Some(50)},
     custom_elasticity : {None},
     max_units : 0..MaxUnits]

InitBatch ==
    /\ settings \in [max_concurrent_optimizations : 1..MaxConcurrency,
                      default_elasticity : {default_elasticity}]
    /\ request \in BatchOptimizeRequests
    /\ bpc = "lookup"
    /\ lookup_i = 1
    /\ units = <<>>
    /\ task_pc = <<>>
    /\ task_result = <<>>
    /\ semaphore = 0
    /\ response = None
    /\ PricingIdle

ExplicitMode == request.unit_ids # <<>>

\* asyncio.Semaphore.locked(): no permit is left.
SemaphoreNeverLocked(value) == FALSE

SemaphoreLocked(value) == value = 0

\* for unit_id in request.unit_ids[:request.max_units]: one lookup returns.
LookupUnit ==
    /\ bpc = "lookup"
    /\ ExplicitMode
    /\ lookup_i <= Len(RequestedIds)
    /\ LET unit == get_unit_by_id(RequestedIds[lookup_i])
       IN  units' = IF unit # None THEN Append(units, Val(unit)) ELSE units
    /\ lookup_i' = lookup_i + 1
    /\ UNCHANGED <<settings, request, bpc, task_pc, task_result, semaphore,
                   response>>
    /\ UNCHANGED pricing_vars

\* get_unit_by_id re-raises a query error; batch_optimize turns it into a 500.
LookupUnitRaises ==
    /\ bpc = "lookup"
    /\ ExplicitMode
    /\ lookup_i <= Len(RequestedIds)
    /\ bpc' = "returned"
    /\ response' = HTTPException("get_unit_by_id")
    /\ UNCHANGED <<settings, request, lookup_i, units, task_pc, task_result,
                   semaphore>>
    /\ UNCHANGED pricing_vars

GetVacantUnits ==
    /\ bpc = "lookup"
    /\ ~ExplicitMode
    /\ units' = get_vacant_units(request.max_units)
    /\ bpc' = "collected"
    /\ UNCHANGED <<settings, request, lookup_i, task_pc, task_result, semaphore,
                   response>>
    /\ UNCHANGED pricing_vars

GetVacantUnitsRaises ==
    /\ bpc = "lookup"
    /\ ~ExplicitMode
    /\ bpc' = "returned"
    /\ response' = HTTPException("get_vacant_units")
    /\ UNCHANGED <<settings, request, lookup_i, units, task_pc, task_result,
                   semaphore>>
    /\ UNCHANGED pricing_vars

UnitsCollected ==
    \/ bpc = "collected"
    \/ bpc = "lookup" /\ ExplicitMode /\ lookup_i > Len(RequestedIds)

\* if not units: return the all-zero aggregate
ReturnEmpty ==
    /\ UnitsCollected
    /\ units = <<>>
    /\ bpc' = "returned"
    /\ response' = EmptyResponse
    /\ UNCHANGED <<settings, request, lookup_i, units, task_pc, task_result,
                   semaphore>>
    /\ UNCHANGED pricing_vars

\* The semaphore is created and gather schedules one task per unit.
StartTasks ==
    /\ UnitsCollected
    /\ units # <<>>
    /\ semaphore' = settings.max_concurrent_optimizations
    /\ task_pc' = [i \in 1..Len(units) |-> "pending"]
    /\ task_result' = [i \in 1..Len(units) |->
                          [query_ok |-> TRUE, comps |-> <<>>, value |-> None]]
    /\ bpc' = "gather"
    /\ UNCHANGED <<settings, request, lookup_i, units, response>>
    /\ UNCHANGED pricing_vars

\* async with semaphore: task i is admitted and awaits its comparable lookup.
Acquire(i) ==
    /\ bpc = "gather"
    /\ task_pc[i] = "pending"
    /\ ~SemaphoreLocked(semaphore)
    /\ semaphore' = semaphore - 1
    /\ task_pc' = [task_pc EXCEPT ![i] = "running"]
    /\ UNCHANGED <<settings, request, bpc, lookup_i, units, task_result, response>>
    /\ UNCHANGED pricing_vars

\* The unit of task i: optimize_with_semaphore(unit) receives it as an argument
\* when the task list is built, one coroutine per element of units.
TaskUnitLast(i) == units[Len(units)]

TaskUnit(i) == units[i]

\* The semaphore when "async with semaphore" is left by a task whose body
\* ended with `value`: __aexit__ releases however the body ended.
ReleaseOnSuccess(value, permits) ==
    IF value # None THEN permits + 1 ELSE permits

Release(value, permits) == permits + 1

\* The comparable lookup of task i returns; the optimizer runs inline, the
\* result (or None) is kept for gather and the permit is released.
FinishTask(i) ==
    /\ bpc = "gather"
    /\ task_pc[i] = "running"
    /\ \E query_ok \in BOOLEAN :
          LET comps == get_unit_comparables(TaskUnit(i).unit_id, query_ok)
          IN  /\ task_result' =
                    [task_result EXCEPT ![i] =
                        [query_ok |-> query_ok, comps |-> comps,
                         value |-> _optimize_single_unit(TaskUnit(i), comps,
                                       request.strategy, request.weight)]]
              /\ semaphore' = Release(task_result'[i].value, semaphore)
    /\ task_pc' = [task_pc EXCEPT ![i] = "done"]
    /\ UNCHANGED <<settings, request, bpc, lookup_i, units, response>>
    /\ UNCHANGED pricing_vars

GatherValues == [i \in 1..Len(task_result) |-> task_result[i].value]

\* gather has every task's value: count and return the aggregate.
Aggregate ==
    /\ bpc = "gather"
    /\ \A i \in 1..Len(units) : task_pc[i] = "done"
    /\ response' = BatchOptimizeResponse(units, GatherValues)
    /\ bpc' = "returned"
    /\ UNCHANGED <<settings, request, lookup_i, units, task_pc, task_result,
                   semaphore>>
    /\ UNCHANGED pricing_vars

\* What the handler is left with when it is cancelled at "await
\* asyncio.gather(...)": `results` is bound only when gather returns, so the
\* values of the finished tasks are out of reach.  CancelledError passes
\* "except Exception" where it is a BaseException (no response at all) and is
\* turned into a 500 where it is an Exception; either way nothing is returned
\* of the finished work.
AbortOutcomes == {None, HTTPException("CancelledError")}

\* The caller aborts while gather is awaited with tasks in flight: gather
\* cancels its unfinished children, and "async with" gives back the permit of
\* every task that held one.
Abort ==
    /\ bpc = "gather"
    /\ \E i \in 1..Len(units) : task_pc[i] # "done"
    /\ bpc' = "aborted"
    /\ task_pc' = [i \in 1..Len(units) |->
                      IF task_pc[i] = "done" THEN "done" ELSE "cancelled"]
    /\ semaphore' =
          semaphore + Cardinality({i \in 1..Len(units) : task_pc[i] = "running"})
    /\ response' \in AbortOutcomes
    /\ UNCHANGED <<settings, request, lookup_i, units, task_result>>
    /\ UNCHANGED pricing_vars

\* A run whose caller waits for the response.
NextRun ==
    \/ LookupUnit
    \/ LookupUnitRaises
    \/ GetVacantUnits
    \/ GetVacantUnitsRaises
    \/ ReturnEmpty
    \/ StartTasks
    \/ \E i \in 1..Len(units) : Acquire(i)
    \/ \E i \in 1..Len(units) : FinishTask(i)
    \/ Aggregate

Next == NextRun \/ Abort

\* The scheduling of a run whose caller keeps waiting: every awaited storage
\* call returns or raises, the event loop runs a ready coroutine, and a
\* released permit wakes the waiters of the semaphore in turn.
Fairness ==
    /\ WF_vars(LookupUnit \/ LookupUnitRaises)
    /\ WF_vars(GetVacantUnits \/ GetVacantUnitsRaises)
    /\ WF_vars(ReturnEmpty)
    /\ WF_vars(StartTasks)
    /\ WF_vars(Aggregate)
    /\ \A i \in 1..MaxUnits : SF_vars(i <= Len(units) /\ Acquire(i))
    /\ \A i \in 1..MaxUnits : WF_vars(i <= Len(units) /\ FinishTask(i))

\* Scheduling does not depend on the strategy: the fair runs use one.
InitFair ==
    /\ InitBatch
    /\ request.strategy = REVENUE

FairSpec == InitFair /\ [][NextRun]_vars /\ Fairness

Init == InitBatch

Spec == Init /\ [][Next]_vars

-----------------------------------------------------------------------------
\* Properties of the batch endpoint, checked under Spec.

TasksLaunched == task_pc # <<>>

Tasks == 1..Len(task_pc)

\* What optimize_unit yields for task i with the comparables its lookup
\* returned, and whether it raised.
ResultOf(i) ==
    optimize_unit(units[i], task_result[i].comps, request.strategy,
                  request.weight, {})

Threw(i) == ResultOf(i).raised

InResults(r) == \E j \in 1..Len(response.results) : response.results[j] = r

Running == {i \in Tasks : task_pc[i] = "running"}

\* C2: the number of admitted, unfinished unit optimizations never exceeds
\* max_concurrent_optimizations.
C2_BoundedConcurrency ==
    Cardinality(Running) <= settings.max_concurrent_optimizations

C2_Witness ==
    /\ Cardinality(Running) = settings.max_concurrent_optimizations
    /\ \E i \in Tasks : task_pc[i] = "pending"
    /\ \E i \in Tasks : task_pc[i] = "done"

\* C3: processed = number of tasks launched, succeeded = number of results,
\* failed = processed - succeeded, and results holds exactly one result per
\* succeeded task and none for a failed one.
C3_BatchAccounting ==
    (bpc = "returned" /\ response.status = 200) =>
        /\ response.total_units_processed = Len(task_pc)
        /\ response.successful_optimizations = Len(response.results)
        /\ response.failed_optimizations =
              response.total_units_processed - response.successful_optimizations
        /\ \A j \in 1..Len(response.results) : ~response.results[j].raised
        /\ \A i \in Tasks :
              LET mine == {j \in 1..Len(response.results) :
                              response.results[j].unit_id = units[i].unit_id}
              IN  IF task_result[i].value = None THEN mine = {}
                  ELSE /\ Cardinality(mine) = 1
                       /\ \A j \in mine :
                             response.results[j] = Val(task_result[i].value)

C3_Witness ==
    /\ bpc = "returned"
    /\ response.status = 200
    /\ response.total_units_processed = 2
    /\ response.successful_optimizations = 1
    /\ response.failed_optimizations = 1

\* C4: a batch with an explicit unit-id list always ends in the aggregate; no
\* single unit's failure makes the whole call fail.
C4_NoWholeBatchError ==
    (bpc = "returned" /\ ExplicitMode) => response.status = 200


\* What optimize_unit returns for the snapshot row of unit_id on its own, with
\* the strategy and weight of the request.
Alone(unit_id, comps) ==
    optimize_unit(DbUnit(unit_id), comps, request.strategy, request.weight, {})

\* C17: every finished task holds, and every result of the batch is, what
\* optimize_unit returns for that unit alone with the request's strategy and
\* weight and the comparables of that unit's own lookup (its competitor rows,
\* or none when the lookup failed), whatever the other units of the batch are,
\* whether they fail, and however the tasks interleave.
C17_ResultAsAlone ==
    /\ \A i \in Tasks :
          task_pc[i] = "done" =>
              LET id == units[i].unit_id
                  comps == task_result[i].comps
                  alone == Alone(id, comps)
              IN  /\ comps \in {DbComps(id), <<>>}
                  /\ task_result[i].value =
                        (IF alone.raised THEN None ELSE Some(alone))
    /\ (bpc = "returned" /\ response.status = 200) =>
          \A j \in 1..Len(response.results) :
             \E comps \in {DbComps(response.results[j].unit_id), <<>>} :
                response.results[j] = Alone(response.results[j].unit_id, comps)

C17_Witness ==
    /\ bpc = "returned"
    /\ response.status = 200
    /\ Len(response.results) = 2
    /\ response.results[1].unit_id = 1
    /\ response.results[2].unit_id = 3
    /\ response.results[2].comp_data # <<>>
    /\ response.failed_optimizations = 1


\* C18 as stated: in both modes, for every max_units, the number of units
\* processed is at most max_units.
C18_UnitCap ==
    (bpc = "returned" /\ response.status = 200) =>
        response.total_units_processed <= request.max_units


\* C25 as stated: when the caller aborts with tasks in flight, the results of
\* the unit optimizations completed by then are still returned.
C25_PartialProgressReturned ==
    \A i \in Tasks :
        (bpc = "aborted" /\ task_pc[i] = "done" /\ task_result[i].value # None) =>
            /\ response # None
            /\ response.status = 200
            /\ InResults(Val(task_result[i].value))


\* Task i exists and is in the given state.
TaskIs(i, pc) == i <= Len(task_pc) /\ task_pc[i] = pc

\* C26: in a run whose caller waits and whose lookups all return or raise,
\* every task is eventually admitted by the semaphore and every admitted task
\* finishes; batch_optimize eventually returns; and when it returns after
\* launching tasks, every task is done and every permit is free again, units
\* that failed included.
C26_BatchProgress ==
    /\ <>(bpc = "returned")
    /\ \A i \in 1..MaxUnits : TaskIs(i, "pending") ~> TaskIs(i, "running")
    /\ \A i \in 1..MaxUnits : TaskIs(i, "running") ~> TaskIs(i, "done")
    /\ []((bpc = "returned" /\ TasksLaunched) =>
             /\ \A i \in Tasks : task_pc[i] = "done"
             /\ semaphore = settings.max_concurrent_optimizations)

C26_Witness ==
    /\ bpc = "returned"
    /\ Len(units) = 3
    /\ settings.max_concurrent_optimizations = 1
    /\ semaphore = 1
    /\ task_result[2].value = None
    /\ task_result[3].value # None
    /\ response.failed_optimizations = 1


\* Task i has finished and its comparable query had failed.
LookupFailed(i) == task_pc[i] = "done" /\ ~task_result[i].query_ok

\* C27: a unit whose comparable lookup failed is treated as a unit with no
\* comparables: its task yields what it yields for an empty comparable set; for
\* a unit that has an advertised rent that is a result with suggested_rent =
\* current_rent, rent_change = 0 and null confidence, which the batch returns
\* among its results; and the batch counts as failed only the units without an
\* advertised rent, never a unit for its failed lookup.
C27_FailedLookupAsNoComparables ==
    /\ \A i \in Tasks :
          LookupFailed(i) =>
              /\ task_result[i].comps = <<>>
              /\ task_result[i].value =
                    _optimize_single_unit(units[i], <<>>, request.strategy,
                                          request.weight)
              /\ units[i].advertised_rent # None =>
                    /\ task_result[i].value # None
                    /\ Val(task_result[i].value).suggested_rent =
                          Val(task_result[i].value).current_rent
                    /\ Val(task_result[i].value).rent_change = 0
                    /\ Val(task_result[i].value).confidence = None
                    /\ (bpc = "returned" /\ response.status = 200) =>
                          InResults(Val(task_result[i].value))
    /\ (bpc = "returned" /\ response.status = 200) =>
          response.failed_optimizations =
              Cardinality({i \in 1..Len(units) : units[i].advertised_rent = None})

C27_Witness ==
    /\ bpc = "returned"
    /\ response.status = 200
    /\ \E i \in Tasks :
          /\ LookupFailed(i)
          /\ DbComps(units[i].unit_id) # <<>>
          /\ InResults(Val(task_result[i].value))
    /\ response.failed_optimizations = 0


\* The positions of the capped request list whose id the snapshot table holds.
FoundRequested == {k \in 1..Len(RequestedIds) : RequestedIds[k] \in UnitIds}

\* C28: in explicit mode a requested id that is not found launches no task and
\* is counted neither as processed nor as failed: processed (and the number of
\* tasks) is the number of requested ids, after the max_units cap, that were
\* found, failed counts only launched tasks, and when no id is found the
\* aggregate is all zeros with empty results.
C28_UnknownIdsDropped ==
    (bpc = "returned" /\ response.status = 200 /\ ExplicitMode) =>
        /\ response.total_units_processed = Cardinality(FoundRequested)
        /\ Len(task_pc) = Cardinality(FoundRequested)
        /\ \A i \in 1..Len(units) : units[i].unit_id \in UnitIds
        /\ response.failed_optimizations =
              Cardinality({i \in Tasks : task_result[i].value = None})
        /\ FoundRequested = {} => response = EmptyResponse

C28_Witness ==
    /\ bpc = "returned"
    /\ response.status = 200
    /\ ExplicitMode
    /\ Len(RequestedIds) = 2
    /\ RequestedIds[2] = UnknownId
    /\ response.total_units_processed = 1
    /\ response.failed_optimizations = 0


-----------------------------------------------------------------------------
\* The single-unit endpoint POST /units/{unit_id}/optimize (main.py,
\* optimize_unit), run on its own.

\* The request bodies pydantic accepts: the fields OptimizeRequest defines (a
\* field the model does not define is dropped at validation).
OptimizeRequests ==
    [strategy : OptimizationStrategy,
     weight : {None} \cup {Some(w) : w \in WeightValues},
     custom_elasticity : ElasticityOverrides]

\* request.<name>: the value of a defined field, AttributeError otherwise.
GetAttr(req, name) ==
    IF name \in DOMAIN req THEN [raised |-> FALSE, value |-> req[name]]
    ELSE Raise("AttributeError")

NotFound == [status |-> 404, detail |-> "Unit not found"]

OptimizeResponse(unit_id, optimization) ==
    [status |-> 200, unit_id |-> unit_id, optimization |-> optimization]

\* The end of the handler: the response for what optimizer.optimize_unit
\* returned or raised.
Respond(unit_id, r) ==
    IF r.raised THEN HTTPException(r.error) ELSE OptimizeResponse(unit_id, r)

\* The handler: lookup_ok and query_ok tell whether the two queries succeed.
\* HTTPException is re-raised as it is, any other exception becomes a 500.
optimize_unit_endpoint(unit_id, req, lookup_ok, query_ok) ==
    IF ~lookup_ok THEN HTTPException("get_unit_by_id")
    ELSE
      LET unit == get_unit_by_id(unit_id)
      IN  IF unit = None THEN NotFound
          ELSE
            LET comps_df == get_unit_comparables(unit_id, query_ok)
                optimizer == create_optimizer(req.custom_elasticity)
                excluded == GetAttr(req, "excluded_comp_ids")
            IN  IF excluded.raised THEN HTTPException(excluded.error)
                ELSE Respond(unit_id,
                             OptimizeUnitOf(optimizer, Val(unit), comps_df,
                                            req.strategy, req.weight,
                                            excluded.value))

InitEndpoint ==
    /\ PricingIdle
    /\ BatchIdle

PostOptimize ==
    /\ call = NoCall
    /\ \E unit_id \in 1..UnknownId, req \in OptimizeRequests,
          lookup_ok \in BOOLEAN, query_ok \in BOOLEAN :
          /\ call' = [op |-> "POST optimize", unit_id |-> unit_id,
                      request |-> req, lookup_ok |-> lookup_ok,
                      query_ok |-> query_ok]
          /\ response' = optimize_unit_endpoint(unit_id, req, lookup_ok, query_ok)
    /\ UNCHANGED <<unit_data, comps_data, filtered_out, result, history>>
    /\ UNCHANGED <<settings, request, bpc, lookup_i, units, task_pc, task_result,
                   semaphore>>

NextEndpoint == PostOptimize

SpecEndpoint == InitEndpoint /\ [][NextEndpoint]_vars

\* C30 as stated: a request with the fields OptimizeRequest defines, for a unit
\* the lookup finds and on which the optimization itself does not fail, is
\* answered with an OptimizeResponse.
C30_EndpointYieldsResult ==
    (/\ call.op = "POST optimize"
     /\ call.lookup_ok
     /\ call.unit_id \in UnitIds
     /\ ~optimize_unit(DbUnit(call.unit_id),
                       get_unit_comparables(call.unit_id, call.query_ok),
                       call.request.strategy, call.request.weight, {}).raised)
        => response.status = 200

====
